---- MODULE Spec2Model ----
(***************************************************************************)
(* Model of helper/chroot/chroot.go: ChrootHelper, the chroot-jail adapter *)
(* over a billy filesystem, and the file wrapper that reports jail names.  *)
(*                                                                         *)
(* A path is a sequence of one-character strings, so that the lexical      *)
(* operations of path/filepath (Clean, Join, Rel, Dir, Base) and           *)
(* strings.HasPrefix are computed character by character and segment by    *)
(* segment, as on a platform whose filepath.Separator is '/'.              *)
(***************************************************************************)
EXTENDS Naturals, Sequences, FiniteSets

\* fs:       the ChrootHelper (underlying, base and the three flags)
\* ret:      the method that returned last, with its arguments (a, b), its
\*           error, the string it returned (out: the name of the file or
\*           the target of the link), what the underlying filesystem gave
\*           (inner) and the helper Chroot made (child); NoCall between calls
\* calls:    the calls that method made on the underlying filesystem
\* symlinks: the links of an underlying filesystem that keeps them
VARIABLES fs, ret, calls, symlinks

vars == <<fs, ret, calls, symlinks>>

----------------------------------------------------------------------------
(* Bounds *)

MaxLen == 5
MaxPairLen == 3
MaxTargetLen == 3
MaxStoredLen == 2

----------------------------------------------------------------------------
(* Characters and path sets *)

Separator == "/"
Chars == {"/", ".", "a"}

Dot == <<".">>
DotDot == <<".", ".">>

RECURSIVE StringsUpTo(_)
StringsUpTo(n) ==
    IF n = 0 THEN {<<>>}
    ELSE LET S == StringsUpTo(n - 1)
         IN S \cup {Append(s, c) : s \in {t \in S : Len(t) = n - 1}, c \in Chars}

Paths == StringsUpTo(MaxLen)
PairPaths == StringsUpTo(MaxPairLen)
Targets == StringsUpTo(MaxTargetLen)
Stored == StringsUpTo(MaxStoredLen)

----------------------------------------------------------------------------
(* strings and path/filepath *)

HasPrefix(s, prefix) ==
    /\ Len(s) >= Len(prefix)
    /\ SubSeq(s, 1, Len(prefix)) = prefix

ToSlash(path) ==
    IF Separator = "/" THEN path
    ELSE [i \in 1..Len(path) |-> IF path[i] = Separator THEN "/" ELSE path[i]]

FromSlash(path) ==
    IF Separator = "/" THEN path
    ELSE [i \in 1..Len(path) |-> IF path[i] = "/" THEN Separator ELSE path[i]]

IsAbs(path) == HasPrefix(path, <<Separator>>)

\* index of the first Separator of path, Len(path) + 1 when there is none
RECURSIVE IndexSep(_, _)
IndexSep(path, i) ==
    IF i > Len(path) THEN i
    ELSE IF path[i] = Separator THEN i
    ELSE IndexSep(path, i + 1)

\* index of the last Separator of path, 0 when there is none
RECURSIVE LastIndexSep(_, _)
LastIndexSep(path, i) ==
    IF i = 0 THEN 0
    ELSE IF path[i] = Separator THEN i
    ELSE LastIndexSep(path, i - 1)

\* the non-empty elements of path, in order
RECURSIVE Elems(_)
Elems(path) ==
    IF path = <<>> THEN <<>>
    ELSE IF Head(path) = Separator THEN Elems(Tail(path))
    ELSE LET n == IndexSep(path, 1)
         IN <<SubSeq(path, 1, n - 1)>> \o Elems(SubSeq(path, n, Len(path)))

RECURSIVE JoinElems(_)
JoinElems(es) ==
    IF es = <<>> THEN <<>>
    ELSE IF Len(es) = 1 THEN es[1]
    ELSE es[1] \o <<Separator>> \o JoinElems(Tail(es))

\* Clean's pass over the elements: "." is dropped, ".." removes the element
\* before it, is dropped at the root, and is kept at the start of a
\* relative path
RECURSIVE CleanElems(_, _, _)
CleanElems(es, out, rooted) ==
    IF es = <<>> THEN out
    ELSE LET e == Head(es)
             rest == Tail(es)
         IN IF e = Dot THEN CleanElems(rest, out, rooted)
            ELSE IF e = DotDot
                 THEN IF out # <<>> /\ out[Len(out)] # DotDot
                      THEN CleanElems(rest, SubSeq(out, 1, Len(out) - 1), rooted)
                      ELSE IF rooted THEN CleanElems(rest, out, rooted)
                      ELSE CleanElems(rest, Append(out, e), rooted)
            ELSE CleanElems(rest, Append(out, e), rooted)

Clean(path) ==
    LET rooted == IsAbs(path)
        body == JoinElems(CleanElems(Elems(path), <<>>, rooted))
        out == IF rooted THEN <<Separator>> \o body ELSE body
    IN IF out = <<>> THEN Dot ELSE out

\* filepath.Join of two elements: empty elements are ignored, the rest is
\* joined with the Separator and cleaned; all empty gives the empty string
FilepathJoin(a, b) ==
    IF a # <<>> THEN Clean(a \o <<Separator>> \o b)
    ELSE IF b # <<>> THEN Clean(b)
    ELSE <<>>

Dir(path) == Clean(SubSeq(path, 1, LastIndexSep(path, Len(path))))

RECURSIVE TrimTrailingSeps(_)
TrimTrailingSeps(path) ==
    IF path # <<>> /\ path[Len(path)] = Separator
    THEN TrimTrailingSeps(SubSeq(path, 1, Len(path) - 1))
    ELSE path

Base(path) ==
    IF path = <<>> THEN Dot
    ELSE LET p == TrimTrailingSeps(path)
             q == SubSeq(p, LastIndexSep(p, Len(p)) + 1, Len(p))
         IN IF q = <<>> THEN <<Separator>> ELSE q

\* length of the common prefix of two element lists
RECURSIVE CommonElems(_, _)
CommonElems(B, T) ==
    IF B = <<>> \/ T = <<>> THEN 0
    ELSE IF Head(B) # Head(T) THEN 0
    ELSE 1 + CommonElems(Tail(B), Tail(T))

RECURSIVE Ups(_)
Ups(n) == IF n = 0 THEN <<>> ELSE <<DotDot>> \o Ups(n - 1)

RelErr == [ok |-> FALSE, path |-> <<>>]

\* filepath.Rel: targpath relative to basepath, or an error
Rel(basepath, targpath) ==
    LET base0 == Clean(basepath)
        targ == Clean(targpath)
    IN IF targ = base0 THEN [ok |-> TRUE, path |-> Dot]
       ELSE LET base == IF base0 = Dot THEN <<>> ELSE base0
                B == Elems(base)
                T == Elems(targ)
                k == CommonElems(B, T)
            IN IF IsAbs(base) # IsAbs(targ) THEN RelErr
               ELSE IF k < Len(B) /\ k < Len(T) /\ B[k + 1] = DotDot THEN RelErr
               ELSE IF k < Len(B)
                    THEN [ok |-> TRUE,
                          path |-> JoinElems(Ups(Len(B) - k) \o SubSeq(T, k + 1, Len(T)))]
               ELSE [ok |-> TRUE, path |-> JoinElems(SubSeq(T, k + 1, Len(T)))]

----------------------------------------------------------------------------
(* Errors, the underlying filesystem, ChrootHelper *)

Nil == "nil"
ErrCrossedBoundary == "ErrCrossedBoundary"
ErrNotSupported == "ErrNotSupported"
\* any error of the underlying filesystem (not found, permission, ...)
ErrUnderlying == "ErrUnderlying"
\* the error of filepath.Rel
ErrRel == "ErrRel"

\* an underlying filesystem is told apart by the optional interfaces it
\* implements besides billy.Basic
Capabilities == {"Dir", "Symlink", "TempFile"}
Underlyings == SUBSET Capabilities

Bases == {<<"/", "a">>, <<"a">>}

Prefixes == {<<>>, <<"a">>}

\* New with the symlink flag probed from the directory interface
NewProbingDir(underlying, base) ==
    [underlying |-> underlying,
     base |-> base,
     dirSupport |-> "Dir" \in underlying,
     symlinkSupport |-> "Dir" \in underlying,
     tempFileSupport |-> "TempFile" \in underlying]

New(underlying, base) ==
    [underlying |-> underlying,
     base |-> base,
     dirSupport |-> "Dir" \in underlying,
     symlinkSupport |-> "Symlink" \in underlying,
     tempFileSupport |-> "TempFile" \in underlying]

NoHelper == New({}, <<>>)

Root(h) == h.base

\* fs.Join hands its elements to the underlying filesystem's Join, which
\* the billy filesystems implement with filepath.Join
Join(a, b) == FilepathJoin(a, b)

\* isCrossBoundaries without its call of filepath.Clean
isCrossBoundariesUncleaned(path) == HasPrefix(ToSlash(path), DotDot)

isCrossBoundaries(path) == HasPrefix(Clean(ToSlash(path)), DotDot)

underlyingPath(h, filename) ==
    IF isCrossBoundaries(filename)
    THEN [err |-> ErrCrossedBoundary, path |-> <<>>]
    ELSE [err |-> Nil, path |-> Join(Root(h), filename)]

\* newFile without its call of filepath.Rel
newFileRooted(h, filename) == Join(Root(h), filename)

\* the name the wrapper reports; filepath.Rel's error is dropped, and its
\* result is then the empty string
newFile(h, filename) ==
    Rel(Root(h), Join(Root(h), filename)).path

isTargetOutBounders(h, link, target) ==
    LET fulllink == Join(h.base, link)
        fullpath == Join(Dir(fulllink), target)
        rel == Rel(h.base, fullpath)
    IN IF ~rel.ok THEN TRUE ELSE isCrossBoundaries(rel.path)

\* the target Symlink works with: rewritten only when it is absolute
symlinkTarget(h, target) ==
    LET t == FromSlash(target)
    IN IF IsAbs(t) \/ HasPrefix(t, <<Separator>>)
       THEN Clean(FromSlash(Join(Root(h), t)))
       ELSE t

\* readlinkTarget without the Separator put before the relative path
readlinkTargetBare(h, target) ==
    IF ~IsAbs(target) /\ ~HasPrefix(target, <<Separator>>)
    THEN [err |-> Nil, out |-> target]
    ELSE LET rel == Rel(h.base, target)
         IN IF ~rel.ok THEN [err |-> ErrRel, out |-> <<>>]
            ELSE [err |-> Nil, out |-> rel.path]

\* what Readlink returns for the target the underlying filesystem gave
readlinkTarget(h, target) ==
    IF ~IsAbs(target) /\ ~HasPrefix(target, <<Separator>>)
    THEN [err |-> Nil, out |-> target]
    ELSE LET rel == Rel(h.base, target)
         IN IF ~rel.ok THEN [err |-> ErrRel, out |-> <<>>]
            ELSE [err |-> Nil, out |-> <<Separator>> \o rel.path]

----------------------------------------------------------------------------
(* State: the helper, the call that returned last, and the calls that call *)
(* made on the underlying filesystem                                       *)

NoCall == [op |-> "none", a |-> <<>>, b |-> <<>>, err |-> Nil, out |-> <<>>,
           inner |-> <<>>, child |-> NoHelper]

Result(op, a, b, err, out, inner, child) ==
    [op |-> op, a |-> a, b |-> b, err |-> err, out |-> out,
     inner |-> inner, child |-> child]

Failed(op, a, b, err) == Result(op, a, b, err, <<>>, <<>>, NoHelper)

Call(op, path, path2) == [op |-> op, path |-> path, path2 |-> path2]

Returns(r, cs) ==
    /\ ret' = r
    /\ calls' = cs
    /\ UNCHANGED <<fs, symlinks>>

\* names the underlying filesystem's handle may report for the file at full
InnerNames(full) == {full, Base(full)}

Init ==
    /\ fs \in {New(u, b) : u \in Underlyings, b \in Bases}
    /\ ret = NoCall
    /\ calls = <<>>
    /\ symlinks = {}

\* Create, Open and OpenFile: resolve, delegate, wrap the handle
OpenLike(op, filename) ==
    LET p == underlyingPath(fs, filename)
    IN IF p.err # Nil
       THEN Returns(Failed(op, filename, <<>>, p.err), <<>>)
       ELSE \/ Returns(Failed(op, filename, <<>>, ErrUnderlying),
                       <<Call(op, p.path, <<>>)>>)
            \/ \E inner \in InnerNames(p.path) :
                  Returns(Result(op, filename, <<>>, Nil,
                                 newFile(fs, filename), inner, NoHelper),
                          <<Call(op, p.path, <<>>)>>)

Create ==
    /\ ret = NoCall
    /\ \E filename \in Paths : OpenLike("Create", filename)

Open ==
    /\ ret = NoCall
    /\ \E filename \in Paths : OpenLike("Open", filename)

OpenFile ==
    /\ ret = NoCall
    /\ \E filename \in Paths : OpenLike("OpenFile", filename)

\* resolve, then hand the call to the underlying filesystem, whose error
\* or success is returned as it is
Delegate(op, path) ==
    LET p == underlyingPath(fs, path)
    IN IF p.err # Nil
       THEN Returns(Failed(op, path, <<>>, p.err), <<>>)
       ELSE \E e \in {Nil, ErrUnderlying} :
               Returns(Failed(op, path, <<>>, e), <<Call(op, p.path, <<>>)>>)

Stat ==
    /\ ret = NoCall
    /\ \E filename \in Paths : Delegate("Stat", filename)

Remove ==
    /\ ret = NoCall
    /\ \E path \in Paths : Delegate("Remove", path)

\* Rename that resolves from alone and joins to without the check
RenameFromOnly ==
    /\ ret = NoCall
    /\ \E from \in PairPaths, to \in PairPaths :
        /\ LET f == underlyingPath(fs, from)
           IN IF f.err # Nil
              THEN Returns(Failed("Rename", from, to, f.err), <<>>)
              ELSE \E e \in {Nil, ErrUnderlying} :
                      Returns(Failed("Rename", from, to, e),
                              <<Call("Rename", f.path, Join(Root(fs), to))>>)

Rename ==
    /\ ret = NoCall
    /\ \E from \in PairPaths, to \in PairPaths :
        /\ LET f == underlyingPath(fs, from)
               t == underlyingPath(fs, to)
           IN IF f.err # Nil
              THEN Returns(Failed("Rename", from, to, f.err), <<>>)
              ELSE IF t.err # Nil
              THEN Returns(Failed("Rename", from, to, t.err), <<>>)
              ELSE \E e \in {Nil, ErrUnderlying} :
                      Returns(Failed("Rename", from, to, e),
                              <<Call("Rename", f.path, t.path)>>)

\* names the underlying filesystem's temporary file may report: the prefix
\* and a generated suffix, rooted at the directory or bare
TempNames(full, prefix) ==
    LET n == prefix \o <<"1">>
    IN {Join(full, n), n}

TempFile ==
    /\ ret = NoCall
    /\ \E dir \in Paths, prefix \in Prefixes :
        /\ IF ~fs.tempFileSupport
           THEN Returns(Failed("TempFile", dir, prefix, ErrNotSupported), <<>>)
           ELSE LET p == underlyingPath(fs, dir)
                IN IF p.err # Nil
                   THEN Returns(Failed("TempFile", dir, prefix, p.err), <<>>)
                   ELSE \/ Returns(Failed("TempFile", dir, prefix, ErrUnderlying),
                                   <<Call("TempFile", p.path, prefix)>>)
                        \/ \E inner \in TempNames(p.path, prefix) :
                              Returns(Result("TempFile", dir, prefix, Nil,
                                             newFile(fs, Join(dir, Base(inner))),
                                             inner, NoHelper),
                                      <<Call("TempFile", p.path, prefix)>>)

ReadDir ==
    /\ ret = NoCall
    /\ \E path \in Paths :
        /\ IF ~fs.dirSupport
           THEN Returns(Failed("ReadDir", path, <<>>, ErrNotSupported), <<>>)
           ELSE Delegate("ReadDir", path)

MkdirAll ==
    /\ ret = NoCall
    /\ \E filename \in Paths :
        /\ IF ~fs.dirSupport
           THEN Returns(Failed("MkdirAll", filename, <<>>, ErrNotSupported), <<>>)
           ELSE Delegate("MkdirAll", filename)

Lstat ==
    /\ ret = NoCall
    /\ \E filename \in Paths :
        /\ IF ~fs.symlinkSupport
           THEN Returns(Failed("Lstat", filename, <<>>, ErrNotSupported), <<>>)
           ELSE Delegate("Lstat", filename)

\* Symlink up to its call of the underlying filesystem: the error it
\* returns before that call, or the arguments of the call
symlinkArgs(h, target, link) ==
    LET t == symlinkTarget(h, target)
        l == underlyingPath(h, link)
    IN IF ~h.symlinkSupport THEN [err |-> ErrNotSupported, target |-> <<>>, link |-> <<>>]
       ELSE IF isTargetOutBounders(h, link, t)
       THEN [err |-> ErrCrossedBoundary, target |-> <<>>, link |-> <<>>]
       ELSE IF l.err # Nil THEN [err |-> l.err, target |-> <<>>, link |-> <<>>]
       ELSE [err |-> Nil, target |-> t, link |-> l.path]

Symlink ==
    /\ ret = NoCall
    /\ \E target \in Targets, link \in PairPaths :
        /\ LET s == symlinkArgs(fs, target, link)
           IN IF s.err # Nil
              THEN Returns(Failed("Symlink", target, link, s.err), <<>>)
              ELSE \E e \in {Nil, ErrUnderlying} :
                      Returns(Failed("Symlink", target, link, e),
                              <<Call("Symlink", s.target, s.link)>>)

\* targets the underlying filesystem may hold at a link: any string, and
\* any string below the base
StoredTargets(h) == Stored \cup {h.base \o <<Separator>> \o t : t \in Stored}

\* Readlink over an underlying filesystem that may hold any target at the
\* link, or fail
Readlink ==
    /\ ret = NoCall
    /\ \E link \in PairPaths :
        /\ IF ~fs.symlinkSupport
           THEN Returns(Failed("Readlink", link, <<>>, ErrNotSupported), <<>>)
           ELSE LET p == underlyingPath(fs, link)
                IN IF p.err # Nil
                   THEN Returns(Failed("Readlink", link, <<>>, p.err), <<>>)
                   ELSE \/ Returns(Failed("Readlink", link, <<>>, ErrUnderlying),
                                   <<Call("Readlink", p.path, <<>>)>>)
                        \/ \E target \in StoredTargets(fs) :
                              LET r == readlinkTarget(fs, target)
                              IN Returns(Result("Readlink", link, <<>>, r.err,
                                                r.out, target, NoHelper),
                                         <<Call("Readlink", p.path, <<>>)>>)

Chroot ==
    /\ ret = NoCall
    /\ \E path \in Paths :
        /\ LET p == underlyingPath(fs, path)
           IN IF p.err # Nil
              THEN Returns(Failed("Chroot", path, <<>>, p.err), <<>>)
              ELSE Returns(Result("Chroot", path, <<>>, Nil, <<>>, <<>>,
                                  New(fs.underlying, p.path)),
                           <<>>)

\* the caller takes the result; the helper is ready for its next call
Return ==
    /\ ret # NoCall
    /\ Returns(NoCall, <<>>)

Next ==
    \/ Create
    \/ Open
    \/ OpenFile
    \/ Stat
    \/ Rename
    \/ Remove
    \/ TempFile
    \/ ReadDir
    \/ MkdirAll
    \/ Lstat
    \/ Symlink
    \/ Readlink
    \/ Chroot
    \/ Return

Spec == Init /\ [][Next]_vars

----------------------------------------------------------------------------
(* The helper over an underlying filesystem that keeps each symlink's      *)
(* target as it was given: symlinks is its table of links. An entry also   *)
(* remembers, in made, the arguments of the Symlink call that created it.  *)

MaxLinks == 1

Stores(full) == {e \in symlinks : e.link = full}

InitStore ==
    /\ fs \in {New(Capabilities, b) : b \in Bases}
    /\ ret = NoCall
    /\ calls = <<>>
    /\ symlinks = {}

SymlinkStore ==
    /\ ret = NoCall
    /\ Cardinality(symlinks) < MaxLinks
    /\ \E target \in Targets, link \in PairPaths :
        /\ LET s == symlinkArgs(fs, target, link)
           IN IF s.err # Nil
              THEN Returns(Failed("Symlink", target, link, s.err), <<>>)
              ELSE /\ calls' = <<Call("Symlink", s.target, s.link)>>
                   /\ UNCHANGED fs
                   /\ IF Stores(s.link) # {}
                      THEN /\ ret' = Failed("Symlink", target, link, ErrUnderlying)
                           /\ UNCHANGED symlinks
                      ELSE /\ ret' = Failed("Symlink", target, link, Nil)
                           /\ symlinks' = symlinks \cup
                                  {[link |-> s.link, target |-> s.target,
                                    made |-> [target |-> target, link |-> link]]}

ReadlinkStore ==
    /\ ret = NoCall
    /\ \E link \in PairPaths :
        /\ IF ~fs.symlinkSupport
           THEN Returns(Failed("Readlink", link, <<>>, ErrNotSupported), <<>>)
           ELSE LET p == underlyingPath(fs, link)
                IN IF p.err # Nil
                   THEN Returns(Failed("Readlink", link, <<>>, p.err), <<>>)
                   ELSE IF Stores(p.path) = {}
                   THEN Returns(Failed("Readlink", link, <<>>, ErrUnderlying),
                                <<Call("Readlink", p.path, <<>>)>>)
                   ELSE \E e \in Stores(p.path) :
                           LET r == readlinkTarget(fs, e.target)
                           IN Returns(Result("Readlink", link, <<>>, r.err,
                                             r.out, e.target, NoHelper),
                                      <<Call("Readlink", p.path, <<>>)>>)

RemoveStore ==
    /\ ret = NoCall
    /\ \E path \in PairPaths :
        /\ LET p == underlyingPath(fs, path)
           IN IF p.err # Nil
              THEN Returns(Failed("Remove", path, <<>>, p.err), <<>>)
              ELSE /\ calls' = <<Call("Remove", p.path, <<>>)>>
                   /\ UNCHANGED fs
                   /\ symlinks' = symlinks \ Stores(p.path)
                   /\ ret' = Failed("Remove", path, <<>>,
                                    IF Stores(p.path) = {} THEN ErrUnderlying ELSE Nil)

NextStore ==
    \/ SymlinkStore
    \/ ReadlinkStore
    \/ RemoveStore
    \/ Return

SpecStore == InitStore /\ [][NextStore]_vars

----------------------------------------------------------------------------
(* Notions the properties are stated with *)

\* the elements of the normal form of path; none for "."
NormElems(path) ==
    LET c == Clean(ToSlash(path))
    IN IF c = Dot THEN <<>> ELSE Elems(c)

\* the lexical normalization of path starts with a ".." segment
Escapes(path) ==
    LET E == NormElems(path)
    IN E # <<>> /\ E[1] = DotDot

\* path has a ".." segment
HasDotDotSegment(path) ==
    \E i \in 1..Len(Elems(path)) : Elems(path)[i] = DotDot

\* path lies lexically at or below base
Below(base, path) ==
    LET B == NormElems(base)
        Q == NormElems(path)
    IN /\ IsAbs(base) = IsAbs(path)
       /\ Len(Q) >= Len(B)
       /\ SubSeq(Q, 1, Len(B)) = B
       /\ \A i \in (Len(B) + 1)..Len(Q) : Q[i] # DotDot

\* path, known to lie at or below base, relative to base
Under(base, path) ==
    LET R == SubSeq(NormElems(path), Len(NormElems(base)) + 1, Len(NormElems(path)))
    IN IF R = <<>> THEN Dot ELSE JoinElems(R)

\* the path arguments of a call of the underlying filesystem, each with
\* the caller's path it was made from
PathArgs(c) ==
    IF c.op = "Rename" THEN {<<c.path, ret.a>>, <<c.path2, ret.b>>}
    ELSE IF c.op = "Symlink" THEN {<<c.path2, ret.b>>}
    ELSE {<<c.path, ret.a>>}

GatedOps(cap) ==
    IF cap = "Dir" THEN {"ReadDir", "MkdirAll"}
    ELSE IF cap = "Symlink" THEN {"Lstat", "Symlink", "Readlink"}
    ELSE {"TempFile"}

\* the operation that returned needs a capability the underlying
\* filesystem lacks
Unsupported ==
    \E cap \in Capabilities : ret.op \in GatedOps(cap) /\ cap \notin fs.underlying

\* the jail paths the operation that returned was given
JailArgs ==
    IF ret.op = "Rename" THEN {ret.a, ret.b}
    ELSE IF ret.op = "Symlink" THEN {ret.b}
    ELSE IF ret.op = "none" THEN {}
    ELSE {ret.a}

----------------------------------------------------------------------------
(* Properties *)

\* C1: every path the underlying filesystem receives is Join(base, p) for
\* the caller's p and lies lexically at or below base, and so does the base
\* of a nested jail
C1_Confinement ==
    /\ \A i \in 1..Len(calls) : \A a \in PathArgs(calls[i]) :
          /\ a[1] = FilepathJoin(fs.base, a[2])
          /\ Below(fs.base, a[1])
    /\ (ret.op = "Chroot" /\ ret.err = Nil) => Below(fs.base, ret.child.base)

\* C2: an operation given a path whose normalization starts with ".."
\* fails with ErrCrossedBoundary and calls nothing
C2_EscapeCrossed ==
    (\E p \in JailArgs : Escapes(p)) =>
        (ret.err = ErrCrossedBoundary /\ calls = <<>>)

\* C2, amended: such an operation calls nothing and fails with
\* ErrCrossedBoundary, or with ErrNotSupported when it needs a capability
\* the underlying filesystem lacks
C2_EscapeRejected ==
    (\E p \in JailArgs : Escapes(p)) =>
        /\ calls = <<>>
        /\ ret.err = IF Unsupported THEN ErrNotSupported ELSE ErrCrossedBoundary

C2_Witness ==
    /\ ret.op = "Lstat"
    /\ "Symlink" \in fs.underlying
    /\ ret.a = <<".", "/", ".", ".">>
    /\ ret.err = ErrCrossedBoundary

\* C3: the target Symlink hands to the underlying filesystem never points
\* outside base: absolute, it is Join(base, target) for the caller's
\* absolute target and lies at or below base; relative, it resolves from
\* the link's directory to a place at or below base; and when Symlink
\* hands nothing over it fails with ErrCrossedBoundary
C3_SymlinkTargetInside ==
    (ret.op = "Symlink" /\ "Symlink" \in fs.underlying) =>
        IF calls = <<>> THEN ret.err = ErrCrossedBoundary
        ELSE LET t == calls[1].path
                 l == calls[1].path2
             IN IF IsAbs(t)
                THEN /\ IsAbs(ret.a)
                     /\ t = FilepathJoin(fs.base, ret.a)
                     /\ Below(fs.base, t)
                ELSE Below(fs.base, FilepathJoin(Dir(l), t))

\* C4: Rename either fails with ErrCrossedBoundary having called nothing,
\* which it does whenever from or to escapes, or calls the underlying
\* Rename once, with (Join(base, from), Join(base, to)), and nothing else
C4_RenameValidatesBoth ==
    ret.op = "Rename" =>
        /\ (Escapes(ret.a) \/ Escapes(ret.b)) =>
               (ret.err = ErrCrossedBoundary /\ calls = <<>>)
        /\ \/ ret.err = ErrCrossedBoundary /\ calls = <<>>
           \/ /\ calls = <<Call("Rename", FilepathJoin(fs.base, ret.a),
                                 FilepathJoin(fs.base, ret.b))>>
              /\ ~Escapes(ret.a)
              /\ ~Escapes(ret.b)
              /\ ret.err \in {Nil, ErrUnderlying}

C4_Witness ==
    /\ ret.op = "Rename"
    /\ ret.a = <<"a">>
    /\ ret.b = <<".", ".">>
    /\ ret.err = ErrCrossedBoundary
    /\ calls = <<>>

\* C5: an operation that needs a capability the underlying filesystem
\* lacks fails with ErrNotSupported for every path and calls nothing; each
\* flag says whether the underlying filesystem has its capability, and the
\* helper never changes
C5_Gated ==
    Unsupported => (ret.err = ErrNotSupported /\ calls = <<>>)

C5_Flags ==
    /\ fs.dirSupport = ("Dir" \in fs.underlying)
    /\ fs.symlinkSupport = ("Symlink" \in fs.underlying)
    /\ fs.tempFileSupport = ("TempFile" \in fs.underlying)

\* C5: the gating and the flags hold in every state, and no step changes
\* the helper
C5_CapabilityGating == [](C5_Gated /\ C5_Flags) /\ [][fs' = fs]_vars

C5_Witness ==
    /\ ret.op = "Symlink"
    /\ fs.underlying = {"Dir", "TempFile"}
    /\ Escapes(ret.b)
    /\ ret.err = ErrNotSupported

\* C6: a path with no ".." segment resolves, to Join(base, path)
C6_NoDotDotResolves ==
    (ret.op = "Chroot" /\ ~HasDotDotSegment(ret.a)) =>
        /\ ret.err = Nil
        /\ ret.child.base = FilepathJoin(fs.base, ret.a)

\* C7: a nested jail at a path s that does not escape is a helper over the
\* same underlying filesystem with base resolve(base, s), and a path x it
\* accepts resolves in it to what Join(s, x) resolves to in the parent
C7_NestedComposition ==
    (ret.op = "Chroot" /\ ~Escapes(ret.a)) =>
        /\ ret.err = Nil
        /\ ret.child = New(fs.underlying, FilepathJoin(fs.base, ret.a))
        /\ \A x \in Paths :
              underlyingPath(ret.child, x).err = Nil =>
                  underlyingPath(fs, FilepathJoin(ret.a, x)) =
                      underlyingPath(ret.child, x)

\* C8: Readlink returns a relative target of the underlying filesystem
\* unchanged, and an absolute target at or below base as the Separator
\* followed by the target relative to base, which is the jail path of the
\* target
C8_ReadlinkReverse ==
    (ret.op = "Readlink" /\ calls # <<>> /\ ret.err # ErrUnderlying) =>
        LET T == ret.inner
        IN /\ ~IsAbs(T) => (ret.err = Nil /\ ret.out = T)
           /\ (IsAbs(T) /\ Below(fs.base, T)) =>
                 /\ ret.err = Nil
                 /\ ret.out = <<Separator>> \o Under(fs.base, T)
                 /\ FilepathJoin(fs.base, ret.out) = Clean(T)

C8_Witness ==
    /\ ret.op = "Readlink"
    /\ fs.base = <<"/", "a">>
    /\ ret.inner = <<"/", "a", "/", "a", ".">>
    /\ ret.out = <<"/", "a", ".">>

\* the jail-relative form of a jail path: cleaned, without a leading
\* Separator
JailName(path) == Clean(<<".", Separator>> \o path)

OpenOps == {"Create", "Open", "OpenFile"}

\* C9: the handle of Create, Open and OpenFile reports Join(base, p) taken
\* relative to base, and the handle of TempFile reports
\* Join(dir, Base(inner name))
C9_NameWrapping ==
    /\ (ret.op \in OpenOps /\ ret.err = Nil) =>
           ret.out = Rel(fs.base, FilepathJoin(fs.base, ret.a)).path
    /\ (ret.op = "TempFile" /\ ret.err = Nil) =>
           ret.out = FilepathJoin(ret.a, Base(ret.inner))

\* C9, amended: every handle reports Join(base, name) taken relative to
\* base, where name is p for Create, Open and OpenFile, whatever the inner
\* handle reports, and Join(dir, Base(inner name)) for TempFile; when p
\* (dir), read from the root of the jail, stays inside the jail, that is
\* name cleaned and without a leading Separator, and it resolves to the
\* path the underlying filesystem was given
C9_JailNames ==
    /\ (ret.op \in OpenOps /\ ret.err = Nil) =>
           /\ ret.out = Rel(fs.base, FilepathJoin(fs.base, ret.a)).path
           /\ ~Escapes(JailName(ret.a)) =>
                 /\ ret.out = JailName(ret.a)
                 /\ FilepathJoin(fs.base, ret.out) = calls[1].path
    /\ (ret.op = "TempFile" /\ ret.err = Nil) =>
           LET name == FilepathJoin(ret.a, Base(ret.inner))
           IN /\ ret.out = Rel(fs.base, FilepathJoin(fs.base, name)).path
              /\ ~Escapes(JailName(ret.a)) =>
                    /\ ret.out = JailName(name)
                    /\ Dir(FilepathJoin(fs.base, ret.out)) = calls[1].path
                    /\ Base(ret.out) = Base(ret.inner)

C9_Witness ==
    /\ ret.op = "TempFile"
    /\ ret.err = Nil
    /\ fs.base = <<"/", "a">>
    /\ ret.a = <<"/", "a">>
    /\ ret.inner = <<"/", "a", "/", "a", "/", "a", "1">>
    /\ ret.out = <<"a", "/", "a", "1">>

\* C10: over an underlying filesystem that keeps targets as given, reading
\* a link that Symlink made succeeds and returns the target Symlink was
\* given: an absolute one as the same absolute jail path, a relative one
\* unchanged
C10_RoundTrip ==
    ret.op = "Readlink" =>
        \A e \in symlinks :
            e.made.link = ret.a =>
                /\ ret.err = Nil
                /\ IF IsAbs(e.made.target)
                   THEN Clean(ret.out) = Clean(e.made.target)
                   ELSE ret.out = e.made.target

====
